---- MODULE Spec2Model ----
(***************************************************************************)
(* Model of the MLOL scraper (src/mlol-scraper/mlol.py and                 *)
(* src/mlol-scraper/mlol-scraper.py).                                      *)
(*                                                                         *)
(* Spec       : the script body: MLOLConfig is built, the monthly report   *)
(*              is fetched, and the estimation loop logs one availability  *)
(*              line per reservation.  The wall clock may pass midnight    *)
(*              while the script runs.                                     *)
(* SpecScrape : MLOLClient.get_reservations, entry by entry, with the      *)
(*              queue text split and parsed character by character.        *)
(*                                                                         *)
(* A date is its proleptic Gregorian ordinal, as datetime.date keeps it:   *)
(* date + timedelta(days=n) is ordinal + n.                                *)
(***************************************************************************)
EXTENDS Integers, Sequences, FiniteSets, TLC

VARIABLES
    pc,                     \* position of the script body
    clock,                  \* the date the wall clock shows (date.today())
    midnight_passed,        \* the clock moved to the next day during the run
    config,                 \* the MLOLConfig object (its fields the loop reads)
    reservations,           \* monthly_report['reservations']['list']
    idx,                    \* position of the for loop in that list (1-based)
    people_ahead_in_queue,  \* script variable
    rounds_to_wait,         \* script variable
    days_to_wait,           \* script variable
    best_availability,      \* script variable
    worst_availability,     \* script variable
    today_best,             \* what date.today() returned for best_availability
    log,                    \* the availability lines logged so far
    s_pc,                   \* position inside get_reservations
    n_entries,              \* number of entries find_elements returned
    entry_idx,              \* entries the for loop has taken so far
    entry,                  \* loop variable of get_reservations
    scraped,                \* the list get_reservations is building
    w_pc,                   \* position around the with statement
    w_step,                 \* statement of the with block that runs next
    exc_info,               \* exception raised inside the with block, if any
    driver_closes,          \* calls of driver.close() so far
    exit_value,             \* what __exit__ returned
    w_outcome,              \* how the with statement ended for its caller
    r_pc,                   \* position in MLOLConfig.__init__ / get_monthly_report
    r_today,                \* what the last date.today() of __init__ returned
    report_config,          \* the MLOLConfig fields get_monthly_report reads
    all_loans,              \* local variable of get_monthly_report
    current_month_loans,    \* local variable of get_monthly_report
    report_reservations,    \* local variable `reservations` of get_monthly_report
    monthly_report,         \* the dictionary get_monthly_report returns
    sb_pc,                  \* position inside search_books
    current_page,           \* local variable of search_books
    visited,                \* page numbers requested with driver.get, in order
    site,                   \* the result pages the driver has loaded, in order
    books                   \* local variable of search_books

estVars == <<pc, clock, midnight_passed, config, reservations, idx,
             people_ahead_in_queue, rounds_to_wait, days_to_wait,
             best_availability, worst_availability, today_best, log>>

scrapeVars == <<s_pc, n_entries, entry_idx, entry, scraped>>

withVars == <<w_pc, w_step, exc_info, driver_closes, exit_value, w_outcome>>

reportVars == <<r_pc, r_today, report_config, all_loans, current_month_loans,
                report_reservations, monthly_report>>

searchVars == <<sb_pc, current_page, visited, site, books>>

vars == <<estVars, scrapeVars, withVars, reportVars, searchVars>>

---------------------------------------------------------------------------
(* Bounds and input sets.                                                  *)

MaxReservations == 3
MaxEntries == 2
MaxTextLen == 3

QueuePositions == {0, 1, 2, 5}
CopyCounts == {0, 1, 2}
LoanDurations == {0, 1, 14}

IsLeap(y) == (y % 4 = 0) /\ ((y % 100 # 0) \/ (y % 400 = 0))

DaysInMonth(y, m) ==
    IF m = 2 THEN (IF IsLeap(y) THEN 29 ELSE 28)
    ELSE IF m \in {4, 6, 9, 11} THEN 30 ELSE 31

RECURSIVE DaysBeforeMonth(_, _)
DaysBeforeMonth(y, m) ==
    IF m = 1 THEN 0 ELSE DaysBeforeMonth(y, m - 1) + DaysInMonth(y, m - 1)

DaysBeforeYear(y) ==
    (y - 1) * 365 + ((y - 1) \div 4) - ((y - 1) \div 100) + ((y - 1) \div 400)

\* date(y, m, d).toordinal()
Ymd2Ord(y, m, d) == DaysBeforeYear(y) + DaysBeforeMonth(y, m) + d

Todays == {Ymd2Ord(2024, 1, 1), Ymd2Ord(2024, 12, 31)}

Reservation(t, a, q, c) ==
    [title |-> t, authors |-> a, queue_position |-> q, available_copies |-> c]

ReservationRecords ==
    {Reservation("T", "W", q, c) : q \in QueuePositions, c \in CopyCounts}

ReservationLists ==
    UNION {[1..n -> ReservationRecords] : n \in 0..MaxReservations}

NoConfig == [loan_duration_in_days |-> -1]

\* characters of the text of the div[id^="divPos"] element
Alphabet == {"0", "1", "x", " ", "\n"}

Texts == UNION {[1..n -> Alphabet] : n \in 0..MaxTextLen}

\* what the sub-elements of one .bottom-buffer entry hold when they are read
Element(f, t) == [found |-> f, text |-> t]

Entry(h, a, b, d) == [h3 |-> h, author |-> a, btn |-> b, divPos |-> d]

NoEntry == Entry(Element(FALSE, ""), Element(FALSE, ""), FALSE, Element(FALSE, <<>>))

CompleteEntries ==
    {Entry(Element(TRUE, "T"), Element(TRUE, "W"), TRUE, Element(TRUE, t)) :
        t \in Texts}

IncompleteEntries ==
    LET d == Element(TRUE, <<"1", "\n", "1">>)
    IN {Entry(Element(FALSE, ""), Element(TRUE, "W"), TRUE, d),
        Entry(Element(TRUE, "T"), Element(FALSE, ""), TRUE, d),
        Entry(Element(TRUE, "T"), Element(TRUE, "W"), FALSE, d),
        Entry(Element(TRUE, "T"), Element(TRUE, "W"), TRUE, Element(FALSE, <<>>))}

Entries == CompleteEntries \cup IncompleteEntries

---------------------------------------------------------------------------
(* The arithmetic of the estimation loop.                                  *)

\* slip: the patron is counted among the people ahead
PeopleAhead_NotExcludingSelf(queue_position) == queue_position

PeopleAhead(queue_position) == queue_position - 1

\* slip: remainder taken instead of quotient
RoundsToWait_Remainder(people_ahead, available_copies) ==
    people_ahead % available_copies

\* floor(people_ahead_in_queue / available_copies), available_copies > 0
RoundsToWait(people_ahead, available_copies) ==
    people_ahead \div available_copies

\* slip: the day until the copies are returned is dropped
DaysToWaitBest_NoReturnDay(rounds, loan_duration) == rounds * loan_duration

\* slip: the best case waits for the current round too
DaysToWaitBest_ExtraRound(rounds, loan_duration) ==
    1 + (rounds + 1) * loan_duration

DaysToWaitBest(rounds, loan_duration) == 1 + rounds * loan_duration

\* slip: the current round is not counted
DaysToWaitWorst_NoCurrentRound(rounds, loan_duration) == rounds * loan_duration

DaysToWaitWorst(rounds, loan_duration) == (rounds + 1) * loan_duration

\* slip: timedelta(days=1) is left out
Availability_NoBuffer(today, days) == today + days

\* slip: the offset grows with every line already logged
Availability_Accumulating(today, days) == today + 1 + days + Len(log)

\* date.today() + timedelta(days=1) + timedelta(days=days)
Availability(today, days) == today + 1 + days

---------------------------------------------------------------------------
(* The script body.                                                        *)

InitEst ==
    /\ pc = "config"
    /\ clock \in Todays
    /\ midnight_passed = FALSE
    /\ config = NoConfig
    /\ reservations = <<>>
    /\ idx = 1
    /\ people_ahead_in_queue = 0
    /\ rounds_to_wait = 0
    /\ days_to_wait = 0
    /\ best_availability = 0
    /\ worst_availability = 0
    /\ today_best = 0
    /\ log = <<>>

InitScrape ==
    /\ s_pc = "open"
    /\ n_entries = 0
    /\ entry_idx = 0
    /\ entry = NoEntry
    /\ scraped = <<>>

InitWith ==
    /\ w_pc = "new"
    /\ w_step = 1
    /\ exc_info = "None"
    /\ driver_closes = 0
    /\ exit_value = "None"
    /\ w_outcome = "running"

InitReport ==
    /\ r_pc = "config_month"
    /\ r_today = 0
    /\ report_config = [current_month |-> 0, current_year |-> 0,
                        max_concurrent_reservations |-> 0,
                        max_monthly_loans |-> 0]
    /\ all_loans = <<>>
    /\ current_month_loans = <<>>
    /\ report_reservations = <<>>
    /\ monthly_report = [loans |-> [used |-> 0, total |-> 0, available |-> 0,
                                    list |-> <<>>],
                         reservations |-> [used |-> 0, total |-> 0,
                                           available |-> 0, list |-> <<>>]]

InitSearch ==
    /\ sb_pc = "start"
    /\ current_page = 0
    /\ visited = <<>>
    /\ site = <<>>
    /\ books = <<>>

Init == InitEst /\ InitScrape /\ InitWith /\ InitReport /\ InitSearch

\* MLOLConfig.__init__: the assert on loan_duration_in_days
MLOLConfigInit ==
    /\ pc = "config"
    /\ \E d \in LoanDurations :
          IF d > 0
          THEN /\ config' = [loan_duration_in_days |-> d]
               /\ pc' = "report"
          ELSE /\ config' = config
               /\ pc' = "AssertionError"
    /\ UNCHANGED <<clock, midnight_passed, reservations, idx,
                   people_ahead_in_queue, rounds_to_wait, days_to_wait,
                   best_availability, worst_availability, today_best, log>>

\* monthly_report = client.get_monthly_report()
GetMonthlyReport ==
    /\ pc = "report"
    /\ \E rs \in ReservationLists : reservations' = rs
    /\ idx' = 1
    /\ pc' = "best"
    /\ UNCHANGED <<clock, midnight_passed, config,
                   people_ahead_in_queue, rounds_to_wait, days_to_wait,
                   best_availability, worst_availability, today_best, log>>

\* loop body up to the assignment of best_availability
EstimateBest ==
    /\ pc = "best"
    /\ idx <= Len(reservations)
    /\ LET reservation == reservations[idx]
           ahead == PeopleAhead(reservation.queue_position)
       IN /\ people_ahead_in_queue' = ahead
          /\ IF reservation.available_copies = 0
             THEN /\ pc' = "ZeroDivisionError"
                  /\ UNCHANGED <<rounds_to_wait, days_to_wait,
                                 best_availability, today_best>>
             ELSE /\ rounds_to_wait' =
                        RoundsToWait(ahead, reservation.available_copies)
                  /\ days_to_wait' =
                        DaysToWaitBest(rounds_to_wait', config.loan_duration_in_days)
                  /\ today_best' = clock
                  /\ best_availability' = Availability(clock, days_to_wait')
                  /\ pc' = "worst"
    /\ UNCHANGED <<clock, midnight_passed, config, reservations, idx,
                   worst_availability, log>>

\* rest of the loop body: worst_availability and the logged line
EstimateWorst ==
    /\ pc = "worst"
    /\ days_to_wait' =
          DaysToWaitWorst(rounds_to_wait, config.loan_duration_in_days)
    /\ worst_availability' = Availability(clock, days_to_wait')
    /\ log' = Append(log,
                [title |-> reservations[idx].title,
                 authors |-> reservations[idx].authors,
                 best |-> best_availability,
                 worst |-> worst_availability',
                 index |-> idx,
                 today_best |-> today_best,
                 today_worst |-> clock])
    /\ idx' = idx + 1
    /\ pc' = "best"
    /\ UNCHANGED <<clock, midnight_passed, config, reservations,
                   people_ahead_in_queue, rounds_to_wait,
                   best_availability, today_best>>

\* the for loop is exhausted
LoopEnd ==
    /\ pc = "best"
    /\ idx > Len(reservations)
    /\ pc' = "done"
    /\ UNCHANGED <<clock, midnight_passed, config, reservations, idx,
                   people_ahead_in_queue, rounds_to_wait, days_to_wait,
                   best_availability, worst_availability, today_best, log>>

\* midnight passes while the loop runs (a run lasts far less than a day)
Tick ==
    /\ pc \in {"best", "worst"}
    /\ ~midnight_passed
    /\ clock' = clock + 1
    /\ midnight_passed' = TRUE
    /\ UNCHANGED <<pc, config, reservations, idx,
                   people_ahead_in_queue, rounds_to_wait, days_to_wait,
                   best_availability, worst_availability, today_best, log>>

NextEst ==
    \/ MLOLConfigInit
    \/ GetMonthlyReport
    \/ EstimateBest
    \/ EstimateWorst
    \/ LoopEnd
    \/ Tick

Next == NextEst /\ UNCHANGED <<scrapeVars, withVars, reportVars, searchVars>>

Spec == Init /\ [][Next]_vars

---------------------------------------------------------------------------
(* MLOLClient.get_reservations.                                            *)

DigitChars == {"0", "1", "2", "3", "4", "5", "6", "7", "8", "9"}

DigitValue(ch) ==
    CASE ch = "0" -> 0 [] ch = "1" -> 1 [] ch = "2" -> 2 [] ch = "3" -> 3
      [] ch = "4" -> 4 [] ch = "5" -> 5 [] ch = "6" -> 6 [] ch = "7" -> 7
      [] ch = "8" -> 8 [] ch = "9" -> 9

\* slip: text.split() splits on any run of white space
RECURSIVE SplitLines_OnWhitespace(_)
SplitLines_OnWhitespace(s) ==
    LET white == {" ", "\n"}
        IsBreak(i) == s[i] \in white
    IN IF s = <<>> THEN <<>>
       ELSE IF IsBreak(1) THEN SplitLines_OnWhitespace(Tail(s))
       ELSE IF \A i \in 1..Len(s) : ~IsBreak(i) THEN <<s>>
       ELSE LET i == CHOOSE i \in 1..Len(s) :
                        IsBreak(i) /\ \A j \in 1..(i - 1) : ~IsBreak(j)
            IN <<SubSeq(s, 1, i - 1)>>
                  \o SplitLines_OnWhitespace(SubSeq(s, i + 1, Len(s)))

\* text.split("\n")
RECURSIVE SplitLines(_)
SplitLines(s) ==
    IF \A i \in 1..Len(s) : s[i] # "\n" THEN <<s>>
    ELSE LET i == CHOOSE i \in 1..Len(s) :
                     s[i] = "\n" /\ \A j \in 1..(i - 1) : s[j] # "\n"
         IN <<SubSeq(s, 1, i - 1)>> \o SplitLines(SubSeq(s, i + 1, Len(s)))

\* QUANTITY_REGEX.match(line): the digits the line starts with; <<>> is None
RECURSIVE QuantityMatch(_)
QuantityMatch(line) ==
    IF line = <<>> \/ Head(line) \notin DigitChars THEN <<>>
    ELSE <<Head(line)>> \o QuantityMatch(Tail(line))

\* int(digits)
RECURSIVE ToInt(_)
ToInt(digits) ==
    IF digits = <<>> THEN 0
    ELSE ToInt(SubSeq(digits, 1, Len(digits) - 1)) * 10
            + DigitValue(digits[Len(digits)])

\* the try block raises: an element is missing, the text does not unpack
\* into two lines, or a match is None
EntryRaises(e) ==
    IF ~e.h3.found \/ ~e.author.found \/ ~e.btn \/ ~e.divPos.found THEN TRUE
    ELSE LET parts == SplitLines(e.divPos.text)
         IN IF Len(parts) # 2 THEN TRUE
            ELSE QuantityMatch(parts[1]) = <<>> \/ QuantityMatch(parts[2]) = <<>>

\* the MLOLReservation the try block builds
EntryReservation(e) ==
    LET parts == SplitLines(e.divPos.text)
    IN Reservation(e.h3.text, e.author.text,
                   ToInt(QuantityMatch(parts[1])),
                   ToInt(QuantityMatch(parts[2])))

\* driver.find_elements_by_css_selector("#mlolreservation .bottom-buffer")
OpenReservationsPage ==
    /\ s_pc = "open"
    /\ n_entries' \in 0..MaxEntries
    /\ entry_idx' = 0
    /\ scraped' = <<>>
    /\ s_pc' = "for"
    /\ UNCHANGED entry

\* the for statement takes the next entry of the page
NextEntry ==
    /\ s_pc = "for"
    /\ entry_idx < n_entries
    /\ entry' \in Entries
    /\ entry_idx' = entry_idx + 1
    /\ s_pc' = "try"
    /\ UNCHANGED <<n_entries, scraped>>

\* the try block and its except clause
ProcessEntry ==
    /\ s_pc = "try"
    /\ IF EntryRaises(entry)
       THEN scraped' = scraped
       ELSE scraped' = Append(scraped, EntryReservation(entry))
    /\ s_pc' = "for"
    /\ UNCHANGED <<n_entries, entry_idx, entry>>

\* return reservations
ReturnReservations ==
    /\ s_pc = "for"
    /\ entry_idx = n_entries
    /\ s_pc' = "returned"
    /\ UNCHANGED <<n_entries, entry_idx, entry, scraped>>

NextScrape ==
    (\/ OpenReservationsPage
     \/ NextEntry
     \/ ProcessEntry
     \/ ReturnReservations) /\ UNCHANGED <<estVars, withVars, reportVars, searchVars>>

SpecScrape == Init /\ [][NextScrape]_vars

---------------------------------------------------------------------------
(* Properties of the estimation loop.                                      *)

Lines == 1..Len(log)

ReservationOf(k) == reservations[log[k].index]

LoanDuration == config.loan_duration_in_days

\* the preconditions of an estimate
ValidInput(r) ==
    /\ r.queue_position >= 1
    /\ r.available_copies >= 1
    /\ LoanDuration >= 1

\* both date.today() reads of line k returned the same date
SameToday(k) == log[k].today_best = log[k].today_worst

\* floor(a / b) for a >= 0, b >= 1, by its defining inequality
FloorQuotient(a, b) == CHOOSE r \in 0..a : r * b <= a /\ a < (r + 1) * b

\* C1: for every valid input and every today (one date for both bounds),
\* latest_date - earliest_date is exactly loan_duration_in_days - 1 days.
C1_ExactSpread ==
    \A k \in Lines :
        (ValidInput(ReservationOf(k)) /\ SameToday(k))
            => log[k].worst - log[k].best = LoanDuration - 1

C1_Witness ==
    \E k \in Lines :
        /\ ValidInput(ReservationOf(k))
        /\ SameToday(k)
        /\ LoanDuration = 14
        /\ ReservationOf(k).queue_position = 5
        /\ log[k].worst - log[k].best = 13

\* C2: for every valid input the best-case date is never later than the
\* worst-case date.
C2_BestNotAfterWorst ==
    \A k \in Lines :
        ValidInput(ReservationOf(k)) => log[k].best <= log[k].worst

C2_Witness ==
    \E k \in Lines :
        /\ ValidInput(ReservationOf(k))
        /\ ReservationOf(k).queue_position = 2
        /\ ReservationOf(k).available_copies = 1
        /\ log[k].best <= log[k].worst

\* C3 as stated: for every valid input, loan_duration_in_days = 1 included,
\* the two dates are never equal.
C3_NeverEqual ==
    \A k \in Lines :
        ValidInput(ReservationOf(k)) => log[k].best # log[k].worst

\* C3 amended: for every valid input with loan_duration_in_days >= 2 the
\* worst case is strictly later than the best case; with
\* loan_duration_in_days = 1 (and one today for both bounds) the two dates
\* are equal.
C3_StrictFromTwoDays ==
    \A k \in Lines :
        ValidInput(ReservationOf(k)) =>
            /\ LoanDuration >= 2 => log[k].best < log[k].worst
            /\ (LoanDuration = 1 /\ SameToday(k)) => log[k].best = log[k].worst

C3_Witness ==
    \E k \in Lines :
        /\ ValidInput(ReservationOf(k))
        /\ LoanDuration = 1
        /\ SameToday(k)
        /\ log[k].best = log[k].worst

\* C4: for every valid input, with r = floor((queue_position - 1) /
\* available_copies), earliest_date = today + 1 + (1 + r * loan_duration)
\* and latest_date = today + 1 + (r + 1) * loan_duration, today being the
\* date each bound read; queue_position = 5, available_copies = 2,
\* loan_duration_in_days = 14 gives r = 2 and 29 and 42 days on top of
\* today + 1.
C4_ClosedForm ==
    \A k \in Lines :
        LET res == ReservationOf(k)
            r == FloorQuotient(res.queue_position - 1, res.available_copies)
        IN ValidInput(res) =>
            /\ log[k].best = log[k].today_best + 1 + (1 + r * LoanDuration)
            /\ log[k].worst = log[k].today_worst + 1 + (r + 1) * LoanDuration
            /\ (res.queue_position = 5 /\ res.available_copies = 2
                    /\ LoanDuration = 14) =>
                  /\ r = 2
                  /\ log[k].best - (log[k].today_best + 1) = 29
                  /\ log[k].worst - (log[k].today_worst + 1) = 42

C4_Witness ==
    \E k \in Lines :
        /\ ReservationOf(k).queue_position = 5
        /\ ReservationOf(k).available_copies = 2
        /\ LoanDuration = 14
        /\ log[k].best = log[k].today_best + 30
        /\ log[k].worst = log[k].today_worst + 43

\* the example of C5: first in the queue, one copy, 14 days, 2024-01-01
IsFirstInQueueExample(k) ==
    /\ ReservationOf(k).queue_position = 1
    /\ ReservationOf(k).available_copies = 1
    /\ LoanDuration = 14
    /\ log[k].today_best = Ymd2Ord(2024, 1, 1)
    /\ log[k].today_worst = Ymd2Ord(2024, 1, 1)

\* people_ahead = 0 and full_rounds_to_wait = 0 while that example is estimated
FirstInQueueIntermediates ==
    (/\ pc = "worst"
     /\ reservations[idx].queue_position = 1
     /\ reservations[idx].available_copies = 1)
        => (people_ahead_in_queue = 0 /\ rounds_to_wait = 0)

\* C5 as stated: queue_position = 1, available_copies = 1,
\* loan_duration_in_days = 14, today = 2024-01-01 gives people_ahead = 0,
\* full_rounds_to_wait = 0, earliest_date = 2024-01-02 and
\* latest_date = 2024-01-15.
C5_ExampleAsStated ==
    /\ FirstInQueueIntermediates
    /\ \A k \in Lines :
          IsFirstInQueueExample(k) =>
              /\ log[k].best = Ymd2Ord(2024, 1, 2)
              /\ log[k].worst = Ymd2Ord(2024, 1, 15)

\* C5 amended: the same input gives people_ahead = 0, full_rounds_to_wait = 0,
\* earliest_date = 2024-01-03 and latest_date = 2024-01-16.
C5_Example ==
    /\ FirstInQueueIntermediates
    /\ \A k \in Lines :
          IsFirstInQueueExample(k) =>
              /\ log[k].best = Ymd2Ord(2024, 1, 3)
              /\ log[k].worst = Ymd2Ord(2024, 1, 16)

C5_Witness ==
    \E k \in Lines :
        /\ IsFirstInQueueExample(k)
        /\ log[k].best = Ymd2Ord(2024, 1, 1) + 2
        /\ log[k].worst = Ymd2Ord(2024, 1, 1) + 15

\* C6: with available_copies, loan_duration_in_days and today fixed, a
\* valid queue position p <= q gets an earliest_date and a latest_date that
\* are not later than those of q.
C6_MonotoneInQueuePosition ==
    \A j, k \in Lines :
        (/\ ValidInput(ReservationOf(j))
         /\ ValidInput(ReservationOf(k))
         /\ ReservationOf(j).available_copies = ReservationOf(k).available_copies
         /\ log[j].today_best = log[k].today_best
         /\ log[j].today_worst = log[k].today_worst
         /\ ReservationOf(j).queue_position <= ReservationOf(k).queue_position)
            => /\ log[j].best <= log[k].best
               /\ log[j].worst <= log[k].worst

C6_Witness ==
    \E j, k \in Lines :
        /\ ValidInput(ReservationOf(j))
        /\ ValidInput(ReservationOf(k))
        /\ ReservationOf(j).available_copies = 2
        /\ ReservationOf(k).available_copies = 2
        /\ ReservationOf(j).queue_position = 2
        /\ ReservationOf(k).queue_position = 5
        /\ log[j].today_best = log[k].today_best
        /\ log[j].today_worst = log[k].today_worst
        /\ log[j].best < log[k].best
        /\ log[j].worst < log[k].worst

\* C7: an estimate with queue_position < 1, available_copies < 1 or
\* loan_duration_in_days < 1 is rejected before any date is computed:
\* available_copies = 0 never ends in a division by zero, and an invalid
\* input never gets a date or a date pair.
C7_InvalidInputRejected ==
    /\ pc # "ZeroDivisionError"
    /\ pc \in {"report", "best", "worst", "done"} => LoanDuration >= 1
    /\ pc = "worst" => ValidInput(reservations[idx])
    /\ \A k \in Lines : ValidInput(ReservationOf(k))

\* the loop has stopped, by exhaustion or by an exception
LoopOver == pc \in {"done", "ZeroDivisionError"}

HasLine(i) == \E k \in Lines : log[k].index = i

\* C8: when the estimate of one reservation fails, every other reservation
\* of the list, before and after it, still gets its availability line.
C8_OthersStillReported ==
    LoopOver =>
        \A i \in 1..Len(reservations) :
            reservations[i].available_copies # 0 => HasLine(i)

\* two lines of the same reservation data, estimated on the same dates
SameInputs(j, k) ==
    /\ ReservationOf(j).queue_position = ReservationOf(k).queue_position
    /\ ReservationOf(j).available_copies = ReservationOf(k).available_copies
    /\ log[j].today_best = log[k].today_best
    /\ log[j].today_worst = log[k].today_worst

EqualEstimates ==
    \A j, k \in Lines :
        SameInputs(j, k) =>
            (log[j].best = log[k].best /\ log[j].worst = log[k].worst)

\* C10: for a fixed today and loan duration the date pair of a reservation
\* does not depend on its place in the list nor on the other reservations,
\* and an estimation step changes neither the reservations nor the
\* configuration nor a line already logged.
C10_Independent ==
    [][(pc \in {"best", "worst"}) =>
          (/\ reservations' = reservations
           /\ config' = config
           /\ SubSeq(log', 1, Len(log)) = log
           /\ (EqualEstimates)')]_vars

C10_Witness ==
    \E j, k \in Lines :
        /\ j + 1 < k
        /\ SameInputs(j, k)
        /\ ReservationOf(j + 1).queue_position # ReservationOf(j).queue_position
        /\ ReservationOf(j).queue_position = 5
        /\ log[j].best = log[k].best
        /\ log[j].worst = log[k].worst

---------------------------------------------------------------------------
(* Properties of get_reservations.                                         *)

\* one line break, and a digit at the start of each of the two lines
WellFormedText(t) ==
    \E i \in 1..Len(t) :
        /\ t[i] = "\n"
        /\ \A j \in 1..Len(t) : t[j] = "\n" => j = i
        /\ 1 < i /\ i < Len(t)
        /\ t[1] \in DigitChars
        /\ t[i + 1] \in DigitChars

WellFormed(e) ==
    /\ e.h3.found /\ e.author.found /\ e.btn /\ e.divPos.found
    /\ WellFormedText(e.divPos.text)

\* a record the estimator can use: all four fields set
AllFieldsSet(r) ==
    /\ DOMAIN r = {"title", "authors", "queue_position", "available_copies"}
    /\ r.title = "T"
    /\ r.authors = "W"
    /\ r.queue_position \in Nat
    /\ r.available_copies \in Nat

\* C9: a malformed or incomplete entry is skipped and the list is left as
\* it was, a well-formed entry is appended after the records of the entries
\* before it, with its title and authors, and every record of the list has
\* all four fields set.
C9_MalformedSkipped ==
    [][(s_pc = "try") =>
          (/\ IF WellFormed(entry)
                THEN /\ Len(scraped') = Len(scraped) + 1
                     /\ SubSeq(scraped', 1, Len(scraped)) = scraped
                     /\ scraped'[Len(scraped')].title = entry.h3.text
                     /\ scraped'[Len(scraped')].authors = entry.author.text
                ELSE scraped' = scraped
           /\ \A i \in 1..Len(scraped') : AllFieldsSet(scraped'[i]))]_vars

C9_Witness ==
    /\ s_pc = "returned"
    /\ entry_idx = 2
    /\ ~WellFormed(entry)
    /\ entry.divPos.found
    /\ Len(entry.divPos.text) = 3
    /\ Len(scraped) = 1
    /\ scraped[1].queue_position = 1
    /\ scraped[1].available_copies = 0

---------------------------------------------------------------------------
(* The date the estimates are offsets from.                                *)

\* C11: both bounds of an estimate and all estimates of one run are offsets
\* from one calendar date, even if the wall clock advances between the
\* reads of the current date: latest_date - earliest_date stays
\* loan_duration_in_days - 1, and two reservations with equal queue_position
\* and available_copies get equal date pairs.
C11_OneDateForTheRun ==
    /\ \A k \in Lines :
          ValidInput(ReservationOf(k))
              => log[k].worst - log[k].best = LoanDuration - 1
    /\ \A j, k \in Lines :
          (/\ ReservationOf(j).queue_position = ReservationOf(k).queue_position
           /\ ReservationOf(j).available_copies = ReservationOf(k).available_copies)
              => (log[j].best = log[k].best /\ log[j].worst = log[k].worst)

---------------------------------------------------------------------------
(* The with statement around the script's use of MLOLClient.               *)

\* the statements of the with block, in order
BodyStatements ==
    <<"login", "get_book_details", "get_book_details", "get_book_details",
      "get_book_details", "get_book_details", "get_monthly_report",
      "estimation_loop">>

\* exceptions a statement of the block may raise
Exceptions ==
    {"NoSuchElementException", "ZeroDivisionError", "AssertionError",
     "WebDriverException", "TimeoutException", "KeyboardInterrupt"}

\* the value of __exit__'s return statement
ExitReturnValue == "self"

\* bool(v): None is false, an MLOLClient instance is true
Truthy(v) == v # "None"

\* MLOLClient(config): the driver is started
ClientInit ==
    /\ w_pc = "new"
    /\ w_pc' = "constructed"
    /\ UNCHANGED <<w_step, exc_info, driver_closes, exit_value, w_outcome>>

\* __enter__
ClientEnter ==
    /\ w_pc = "constructed"
    /\ w_step' = 1
    /\ w_pc' = "body"
    /\ UNCHANGED <<exc_info, driver_closes, exit_value, w_outcome>>

\* one statement of the block completes, or raises
BodyStatement ==
    /\ w_pc = "body"
    /\ w_step <= Len(BodyStatements)
    /\ \/ /\ w_step' = w_step + 1
          /\ UNCHANGED <<w_pc, exc_info>>
       \/ /\ exc_info' \in Exceptions
          /\ w_pc' = "exit"
          /\ UNCHANGED w_step
    /\ UNCHANGED <<driver_closes, exit_value, w_outcome>>

\* the block ends normally
BodyEnd ==
    /\ w_pc = "body"
    /\ w_step > Len(BodyStatements)
    /\ w_pc' = "exit"
    /\ UNCHANGED <<w_step, exc_info, driver_closes, exit_value, w_outcome>>

\* __exit__(exc_type, exc_value, traceback)
ClientExit ==
    /\ w_pc = "exit"
    /\ driver_closes' = driver_closes + 1
    /\ exit_value' = ExitReturnValue
    /\ w_pc' = "with_end"
    /\ UNCHANGED <<w_step, exc_info, w_outcome>>

\* the with statement: re-raise unless __exit__ returned a true value
WithEnd ==
    /\ w_pc = "with_end"
    /\ w_outcome' = IF exc_info # "None" /\ ~Truthy(exit_value)
                    THEN "raised"
                    ELSE "continues"
    /\ w_pc' = "after"
    /\ UNCHANGED <<w_step, exc_info, driver_closes, exit_value>>

NextWith ==
    (\/ ClientInit
     \/ ClientEnter
     \/ BodyStatement
     \/ BodyEnd
     \/ ClientExit
     \/ WithEnd) /\ UNCHANGED <<estVars, scrapeVars, reportVars, searchVars>>

SpecWith == Init /\ [][NextWith]_vars

\* C12: leaving the with block closes the web driver exactly once, whether
\* the block ends normally or by an exception, and an exception raised inside
\* the block is still propagated to the caller after the driver is closed.
C12_ClosedOnceAndPropagated ==
    w_pc = "after" =>
        /\ driver_closes = 1
        /\ exc_info # "None" => w_outcome = "raised"

---------------------------------------------------------------------------
(* MLOLConfig.__init__ and MLOLClient.get_monthly_report.                  *)

MaxLoans == 3

\* date.fromordinal(n), for the years the model's dates fall in
Ord2Ymd(n) ==
    CHOOSE ymd \in [year : 2023..2026, month : 1..12, day : 1..31] :
        /\ ymd.day <= DaysInMonth(ymd.year, ymd.month)
        /\ Ymd2Ord(ymd.year, ymd.month, ymd.day) = n

Loan(t, a, s, e) == [title |-> t, authors |-> a, start_date |-> s, end_date |-> e]

\* datetime.strptime(loan_start, '%d/%m/%Y')
LoanStartDates ==
    {[year |-> 2024, month |-> 12, day |-> 5],
     [year |-> 2024, month |-> 1, day |-> 5],
     [year |-> 2023, month |-> 12, day |-> 5],
     [year |-> 2025, month |-> 12, day |-> 5]}

LoanRecords ==
    {Loan("T", "W", s, [s EXCEPT !.day = 19]) : s \in LoanStartDates}

LoanHistories == UNION {[1..n -> LoanRecords] : n \in 0..MaxLoans}

\* what get_reservations returns to get_monthly_report
ReportReservationLists ==
    {[i \in 1..n |-> Reservation("T", "W", 1, 1)] : n \in 0..MaxReservations}

MaxConcurrentReservations == {0, 1, 3}

MaxMonthlyLoans == {0, 2}

\* slip: the year of the loan is not compared
IsCurrentMonthLoan_MonthOnly(l, cfg) ==
    l.start_date.month = cfg.current_month

\* the lambda of the filter
IsCurrentMonthLoan(l, cfg) ==
    /\ l.start_date.month = cfg.current_month
    /\ l.start_date.year = cfg.current_year

\* list(filter(lambda l: ..., loans))
RECURSIVE FilterLoans(_, _)
FilterLoans(loans, cfg) ==
    IF loans = <<>> THEN <<>>
    ELSE (IF IsCurrentMonthLoan(Head(loans), cfg) THEN <<Head(loans)>> ELSE <<>>)
            \o FilterLoans(Tail(loans), cfg)

\* self.current_month = date.today().month
ConfigCurrentMonth ==
    /\ r_pc = "config_month"
    /\ \E d \in Todays :
          /\ r_today' = d
          /\ report_config' = [report_config EXCEPT
                                  !.current_month = Ord2Ymd(d).month]
    /\ r_pc' = "config_year"
    /\ UNCHANGED <<all_loans, current_month_loans, report_reservations,
                   monthly_report>>

\* self.current_year = date.today().year: a second read of the clock
ConfigCurrentYear ==
    /\ r_pc = "config_year"
    /\ \E d \in {r_today, r_today + 1} :
          /\ r_today' = d
          /\ report_config' = [report_config EXCEPT
                                  !.current_year = Ord2Ymd(d).year]
    /\ r_pc' = "config_limits"
    /\ UNCHANGED <<all_loans, current_month_loans, report_reservations,
                   monthly_report>>

\* the rest of MLOLConfig.__init__: the limits and the assert on the first
ConfigLimits ==
    /\ r_pc = "config_limits"
    /\ \E mr \in MaxConcurrentReservations, ml \in MaxMonthlyLoans :
          IF mr > 0
          THEN /\ report_config' = [report_config EXCEPT
                                       !.max_concurrent_reservations = mr,
                                       !.max_monthly_loans = ml]
               /\ r_pc' = "get_all_loans"
          ELSE /\ report_config' = report_config
               /\ r_pc' = "AssertionError"
    /\ UNCHANGED <<r_today, all_loans, current_month_loans,
                   report_reservations, monthly_report>>

\* all_loans = client.get_all_loans()
GetAllLoans ==
    /\ r_pc = "get_all_loans"
    /\ all_loans' \in LoanHistories
    /\ r_pc' = "filter"
    /\ UNCHANGED <<r_today, report_config, current_month_loans,
                   report_reservations, monthly_report>>

\* current_month_loans = list(filter(...))
FilterCurrentMonth ==
    /\ r_pc = "filter"
    /\ current_month_loans' = FilterLoans(all_loans, report_config)
    /\ r_pc' = "get_reservations"
    /\ UNCHANGED <<r_today, report_config, all_loans, report_reservations,
                   monthly_report>>

\* reservations = client.get_reservations()
GetReportReservations ==
    /\ r_pc = "get_reservations"
    /\ report_reservations' \in ReportReservationLists
    /\ r_pc' = "build"
    /\ UNCHANGED <<r_today, report_config, all_loans, current_month_loans,
                   monthly_report>>

\* the returned dictionary
ReturnMonthlyReport ==
    /\ r_pc = "build"
    /\ monthly_report' =
          [loans |->
              [used |-> Len(current_month_loans),
               total |-> report_config.max_monthly_loans,
               available |-> report_config.max_monthly_loans
                                - Len(current_month_loans),
               list |-> current_month_loans],
           reservations |->
              [used |-> Len(report_reservations),
               total |-> report_config.max_concurrent_reservations,
               available |-> report_config.max_concurrent_reservations
                                - Len(report_reservations),
               list |-> report_reservations]]
    /\ r_pc' = "returned"
    /\ UNCHANGED <<r_today, report_config, all_loans, current_month_loans,
                   report_reservations>>

NextReport ==
    (\/ ConfigCurrentMonth
     \/ ConfigCurrentYear
     \/ ConfigLimits
     \/ GetAllLoans
     \/ FilterCurrentMonth
     \/ GetReportReservations
     \/ ReturnMonthlyReport) /\ UNCHANGED <<estVars, scrapeVars, withVars, searchVars>>

SpecReport == Init /\ [][NextReport]_vars

\* positions of the history whose start date has the captured month and year
CapturedMonthLoans ==
    {i \in 1..Len(all_loans) :
        /\ all_loans[i].start_date.month = report_config.current_month
        /\ all_loans[i].start_date.year = report_config.current_year}

\* C13: in the returned dictionary used + available = total for loans and
\* for reservations; loans.used is the number of loans of the history whose
\* start date has both the month and the year captured when the
\* configuration was created, loans.list holds exactly those loans, and
\* reservations.used is the length of reservations.list.
C13_ReportConsistent ==
    r_pc = "returned" =>
        LET l == monthly_report.loans
            r == monthly_report.reservations
        IN /\ l.used + l.available = l.total
           /\ r.used + r.available = r.total
           /\ l.used = Cardinality(CapturedMonthLoans)
           /\ Len(l.list) = Cardinality(CapturedMonthLoans)
           /\ \A j \in 1..Len(l.list) :
                 \E i \in CapturedMonthLoans : l.list[j] = all_loans[i]
           /\ \A i \in CapturedMonthLoans :
                 \E j \in 1..Len(l.list) : l.list[j] = all_loans[i]
           /\ r.used = Len(r.list)

C13_Witness ==
    /\ r_pc = "returned"
    /\ Len(all_loans) = 3
    /\ monthly_report.loans.used = 1
    /\ monthly_report.loans.available = -1
    /\ \E i \in 1..3 :
          /\ all_loans[i].start_date.month = report_config.current_month
          /\ all_loans[i].start_date.year # report_config.current_year
    /\ \E i \in 1..3 :
          /\ all_loans[i].start_date.month # report_config.current_month
          /\ all_loans[i].start_date.year = report_config.current_year
    /\ monthly_report.reservations.used = 2
    /\ monthly_report.reservations.available = 1

---------------------------------------------------------------------------
(* MLOLClient.search_books.                                                *)

MaxPages == 3
MaxBooksPerPage == 2

\* the books one result page lists (a book is its id)
BookIds == {"a", "b"}

BookLists == UNION {[1..n -> BookIds] : n \in 0..MaxBooksPerPage}

\* what the site serves for result page k; the results end by page MaxPages
PageContents(k) ==
    {[books |-> b, has_next |-> h] :
        b \in BookLists,
        h \in (IF k >= MaxPages THEN {FALSE} ELSE BOOLEAN)}

\* the page the driver currently shows
LoadedPage == site[Len(site)]

\* slip: a page is skipped
NextPage_SkipsOne(page) == page + 2

\* next_page = current_page + 1
NextPage(page) == page + 1

\* current_page = 1 and the first driver.get
SearchStart ==
    /\ sb_pc = "start"
    /\ current_page' = 1
    /\ visited' = <<1>>
    /\ \E p \in PageContents(1) : site' = <<p>>
    /\ books' = <<>>
    /\ sb_pc' = "results"

\* the for loop over the results of the loaded page
ScrapeResults ==
    /\ sb_pc = "results"
    /\ books' = books \o LoadedPage.books
    /\ sb_pc' = "pager"
    /\ UNCHANGED <<current_page, visited, site>>

\* the try block: the 'next' link is found and the next page is loaded
FollowNext ==
    /\ sb_pc = "pager"
    /\ LoadedPage.has_next
    /\ LET next_page == NextPage(current_page)
       IN /\ visited' = Append(visited, next_page)
          /\ \E p \in PageContents(next_page) : site' = Append(site, p)
          /\ current_page' = next_page
    /\ sb_pc' = "results"
    /\ UNCHANGED books

\* the except clause: NoSuchElementException, break
NoNextLink ==
    /\ sb_pc = "pager"
    /\ ~LoadedPage.has_next
    /\ sb_pc' = "return"
    /\ UNCHANGED <<current_page, visited, site, books>>

\* return books
ReturnBooks ==
    /\ sb_pc = "return"
    /\ sb_pc' = "returned"
    /\ UNCHANGED <<current_page, visited, site, books>>

NextSearch ==
    (\/ SearchStart
     \/ ScrapeResults
     \/ FollowNext
     \/ NoNextLink
     \/ ReturnBooks) /\ UNCHANGED <<estVars, scrapeVars, withVars, reportVars>>

\* the method runs to its end: no step of it waits for anything
SpecSearch == Init /\ [][NextSearch]_vars /\ WF_vars(NextSearch)

\* the books of the first n loaded pages, in page order
RECURSIVE BooksOfPages(_)
BooksOfPages(n) ==
    IF n = 0 THEN <<>> ELSE BooksOfPages(n - 1) \o site[n].books

PagesVisitedInOrder ==
    sb_pc # "start" =>
        /\ visited = [i \in 1..current_page |-> i]
        /\ Len(site) = current_page
        /\ \A k \in 1..(current_page - 1) : site[k].has_next
        /\ sb_pc \in {"return", "returned"} =>
              /\ ~site[current_page].has_next
              /\ books = BooksOfPages(current_page)

====
